---- MODULE Spec2Model ----
(***************************************************************************)
(* A model of ExpenseTracker (src/expenseTracker/expense_tracker.py).      *)
(*                                                                         *)
(* Monetary values are counted in hundredths (4.50 is 450); the texts the  *)
(* program reads and writes (amounts, dates, month labels) are sequences   *)
(* of one-character strings.  datetime values are records.                 *)
(***************************************************************************)
EXTENDS Integers, Sequences, FiniteSets, TLC

VARIABLES expenses, category_budgets, data_file, budget_file, reports, now, out

vars == <<expenses, category_budgets, data_file, budget_file, reports, now, out>>

\* ------------------------------------------------------------------ bounds
\* Longest expense list explored by the store specification.
MaxExpenses == 2
\* Longest expense list explored by the budget specification.
MaxBudgetExpenses == 2
\* Longest expense list explored by the aggregation specification.
MaxQueryExpenses == 3
\* Longest expense list explored by the report specification.
MaxReportExpenses == 2

\* ------------------------------------------------------------------ values
\* a file that does not exist; an existing one is <<content>>
NoFile == <<>>
\* None as the value of an optional month or year (no month or year is negative)
None == 0 - 1

\* self.categories
categories ==
    <<"Food", "Transportation", "Housing", "Entertainment",
      "Utilities", "Healthcare", "Education", "Shopping", "Other">>

CategorySet == {categories[i] : i \in 1..Len(categories)}

DateTime(y, mo, d, h, mi, s) ==
    [year |-> y, month |-> mo, day |-> d, hour |-> h, minute |-> mi, second |-> s]

\* The instants datetime.now() returns in the explored runs, in any order
\* (local wall-clock time is not monotonic): one with a seconds part, one in
\* another month, one in the same month of another year.
Instants ==
    { DateTime(2024, 1, 15, 10, 30, 42),
      DateTime(2024, 2, 3, 9, 5, 0),
      DateTime(2025, 1, 20, 18, 45, 0) }

\* The two of them the store and report specifications use.
TwoInstants == {t \in Instants : t.year = 2024}

\* ------------------------------------------------------------------ text
DigitChars == <<"0", "1", "2", "3", "4", "5", "6", "7", "8", "9">>

Digits == {DigitChars[i] : i \in 1..10}

DigitChar(n) == DigitChars[n + 1]

DigitVal(c) == CHOOSE n \in 0..9 : DigitChars[n + 1] = c

IsDigits(s) == \A i \in 1..Len(s) : s[i] \in Digits

RECURSIVE IntVal(_)
IntVal(s) ==
    IF s = <<>> THEN 0
    ELSE IntVal(SubSeq(s, 1, Len(s) - 1)) * 10 + DigitVal(s[Len(s)])

RECURSIVE IntText(_)
IntText(n) ==
    IF n < 10 THEN <<DigitChar(n)>>
    ELSE Append(IntText(n \div 10), DigitChar(n % 10))

\* %Y, %m, %d, %H, %M: the number zero-padded to a fixed width
RECURSIVE Pad(_, _)
Pad(n, width) ==
    IF width = 0 THEN <<>>
    ELSE Append(Pad(n \div 10, width - 1), DigitChar(n % 10))

\* float(amount or 0): an empty text read as 0
float_mut(text) ==
    IF text = <<>> THEN [ok |-> TRUE, val |-> 0]
    ELSE IF IsDigits(text) THEN [ok |-> TRUE, val |-> IntVal(text) * 100]
    ELSE [ok |-> FALSE, val |-> 0]

\* float(text), in hundredths: an optional sign, digits, at most one point.
\* Texts with more than two fraction digits are not among the inputs.
float(text) ==
    LET signed == text # <<>> /\ text[1] \in {"-", "+"}
        body == IF signed THEN Tail(text) ELSE text
        dots == {i \in 1..Len(body) : body[i] = "."}
        p == IF dots = {} THEN Len(body) + 1 ELSE CHOOSE i \in dots : TRUE
        ip == SubSeq(body, 1, p - 1)
        fp == SubSeq(body, p + 1, Len(body))
        valid == /\ Cardinality(dots) <= 1
                 /\ IsDigits(ip) /\ IsDigits(fp)
                 /\ Len(ip) + Len(fp) >= 1
        frac == IF Len(fp) = 0 THEN 0
                ELSE IF Len(fp) = 1 THEN DigitVal(fp[1]) * 10
                ELSE DigitVal(fp[1]) * 10 + DigitVal(fp[2])
        mag == IntVal(ip) * 100 + frac
    IN  IF valid
        THEN [ok |-> TRUE, val |-> IF text[1] = "-" THEN 0 - mag ELSE mag]
        ELSE [ok |-> FALSE, val |-> 0]

\* str(amount) of a float as csv.DictWriter writes it: shortest repr
float_repr(v) ==
    LET mag == IF v < 0 THEN 0 - v ELSE v
        f == mag % 100
        ft == IF f % 10 = 0 THEN <<DigitChar(f \div 10)>>
              ELSE <<DigitChar(f \div 10), DigitChar(f % 10)>>
    IN  (IF v < 0 THEN <<"-">> ELSE <<>>) \o IntText(mag \div 100) \o <<".">> \o ft

\* date.strftime("%Y-%m-%d %H:%M")
strftime_minute(d) ==
    Pad(d.year, 4) \o <<"-">> \o Pad(d.month, 2) \o <<"-">> \o Pad(d.day, 2)
        \o <<" ">> \o Pad(d.hour, 2) \o <<":">> \o Pad(d.minute, 2)

\* datetime.strptime(text, "%Y-%m-%d %H:%M")
strptime_minute(t) ==
    DateTime(IntVal(SubSeq(t, 1, 4)), IntVal(SubSeq(t, 6, 7)),
             IntVal(SubSeq(t, 9, 10)), IntVal(SubSeq(t, 12, 13)),
             IntVal(SubSeq(t, 15, 16)), 0)

\* date.strftime("%Y-%m-%d")
strftime_day(d) ==
    Pad(d.year, 4) \o <<"-">> \o Pad(d.month, 2) \o <<"-">> \o Pad(d.day, 2)

\* date.dt.strftime('%Y-%m')
strftime_month(d) == Pad(d.year, 4) \o <<"-">> \o Pad(d.month, 2)

\* ------------------------------------------------------------------ files
save_row(e) ==
    [date |-> strftime_minute(e.date), description |-> e.description,
     category |-> e.category, amount |-> float_repr(e.amount)]

load_row(r) ==
    [date |-> strptime_minute(r.date), description |-> r.description,
     category |-> r.category, amount |-> float(r.amount).val]

\* the file written before the new expense is in the list
save_data_mut(exps) ==
    [i \in 1..(IF exps = <<>> THEN 0 ELSE Len(exps) - 1) |-> save_row(exps[i])]

\* save_data: the rows written to data_file
save_data(exps) == [i \in 1..Len(exps) |-> save_row(exps[i])]

\* load_data: the expenses read from data_file, [] when it does not exist
load_data(file) ==
    IF file = NoFile THEN <<>> ELSE [i \in 1..Len(file[1]) |-> load_row(file[1][i])]

\* {}
EmptyDict == [c \in {} |-> 0]

\* load_budgets: {} when budget_file does not exist
load_budgets(file) == IF file = NoFile THEN EmptyDict ELSE file[1]

\* ------------------------------------------------------------------ sums
RECURSIVE SumAmounts(_)
SumAmounts(s) ==
    IF s = <<>> THEN 0 ELSE SumAmounts(SubSeq(s, 1, Len(s) - 1)) + s[Len(s)].amount

\* self.category_budgets.get(category, 0)
budget_get(budgets, category) ==
    IF category \in DOMAIN budgets THEN budgets[category] ELSE 0

\* the alert at category_total >= budget
check_budget_alert_mut(exps, budgets, category, at) ==
    LET budget == budget_get(budgets, category)
        this_month(e) == /\ e.category = category
                         /\ e.date.month = at.month
                         /\ e.date.year = at.year
        category_total == SumAmounts(SelectSeq(exps, this_month))
    IN  IF budget > 0 /\ category_total >= budget
        THEN << [msg |-> "BUDGET ALERT", category |-> category,
                 budget |-> budget, spent |-> category_total] >>
        ELSE <<>>

\* check_budget_alert: the lines it prints
check_budget_alert(exps, budgets, category, at) ==
    LET budget == budget_get(budgets, category)
        this_month(e) == /\ e.category = category
                         /\ e.date.month = at.month
                         /\ e.date.year = at.year
        category_total == SumAmounts(SelectSeq(exps, this_month))
    IN  IF budget <= 0 THEN <<>>
        ELSE IF category_total > budget
        THEN << [msg |-> "BUDGET ALERT", category |-> category,
                 budget |-> budget, spent |-> category_total] >>
        ELSE <<>>

\* ------------------------------------------------------------------ queries
\* Python truthiness of an optional number: None and 0 are false
Truthy(x) == x # None /\ x # 0

\* summary[category] += amount on a defaultdict(float); keys keep the order
\* of first insertion
dict_add(d, category, amount) ==
    IF \E i \in 1..Len(d) : d[i].category = category
    THEN [i \in 1..Len(d) |->
            IF d[i].category = category
            THEN [category |-> category, amount |-> d[i].amount + amount]
            ELSE d[i]]
    ELSE Append(d, [category |-> category, amount |-> amount])

\* the year filter as an elif of the month filter
RECURSIVE get_summary_mut(_, _, _)
get_summary_mut(exps, month, year) ==
    IF exps = <<>> THEN [summary |-> <<>>, total |-> 0]
    ELSE LET before == get_summary_mut(SubSeq(exps, 1, Len(exps) - 1), month, year)
             expense == exps[Len(exps)]
         IN  IF Truthy(month) /\ expense.date.month # month THEN before
             ELSE IF ~Truthy(month) /\ Truthy(year) /\ expense.date.year # year
             THEN before
             ELSE [summary |-> dict_add(before.summary, expense.category, expense.amount),
                   total |-> before.total + expense.amount]

\* get_summary(month, year): (summary, total)
RECURSIVE get_summary(_, _, _)
get_summary(exps, month, year) ==
    IF exps = <<>> THEN [summary |-> <<>>, total |-> 0]
    ELSE LET before == get_summary(SubSeq(exps, 1, Len(exps) - 1), month, year)
             expense == exps[Len(exps)]
         IN  IF Truthy(month) /\ expense.date.month # month THEN before
             ELSE IF Truthy(year) /\ expense.date.year # year THEN before
             ELSE [summary |-> dict_add(before.summary, expense.category, expense.amount),
                   total |-> before.total + expense.amount]

\* over budget at amount >= budget
summary_line_mut(budgets, category, amount) ==
    LET budget == budget_get(budgets, category)
        remaining == IF budget > 0 THEN budget - amount ELSE 0
        status == IF budget > 0
                  THEN IF amount >= budget THEN "OVER BUDGET!" ELSE "remaining"
                  ELSE ""
    IN  [category |-> category, amount |-> amount, status |-> status,
         remaining |-> remaining]

\* the line show_summary prints for one category of the summary
summary_line(budgets, category, amount) ==
    LET budget == budget_get(budgets, category)
        remaining == IF budget > 0 THEN budget - amount ELSE 0
        status == IF budget > 0
                  THEN IF amount > budget THEN "OVER BUDGET!" ELSE "remaining"
                  ELSE ""
    IN  [category |-> category, amount |-> amount, status |-> status,
         remaining |-> remaining]

\* code points of the characters of a month label
CharCode(c) == IF c = "-" THEN 45 ELSE 48 + DigitVal(c)

\* a < b for strings
RECURSIVE StrLess(_, _)
StrLess(a, b) ==
    IF b = <<>> THEN FALSE
    ELSE IF a = <<>> THEN TRUE
    ELSE IF CharCode(a[1]) # CharCode(b[1]) THEN CharCode(a[1]) < CharCode(b[1])
    ELSE StrLess(Tail(a), Tail(b))

\* the group keys in descending order
RECURSIVE sorted_keys_mut(_)
sorted_keys_mut(keys) ==
    IF keys = {} THEN <<>>
    ELSE LET last == CHOOSE k \in keys : \A o \in keys \ {k} : StrLess(o, k)
         IN  <<last>> \o sorted_keys_mut(keys \ {last})

\* the group keys of df.groupby('month_year'), which sorts them
RECURSIVE sorted_keys(_)
sorted_keys(keys) ==
    IF keys = {} THEN <<>>
    ELSE LET least == CHOOSE k \in keys : \A o \in keys \ {k} : StrLess(k, o)
         IN  <<least>> \o sorted_keys(keys \ {least})

\* monthly = df.groupby('month_year')['amount'].sum().reset_index()
monthly(exps) ==
    LET keys == sorted_keys({strftime_month(exps[i].date) : i \in 1..Len(exps)})
        in_month(k) == SelectSeq(exps, LAMBDA e : strftime_month(e.date) = k)
    IN  [i \in 1..Len(keys) |->
            [month_year |-> keys[i], amount |-> SumAmounts(in_month(keys[i]))]]

\* calendar.month_name
month_name ==
    <<"January", "February", "March", "April", "May", "June", "July",
      "August", "September", "October", "November", "December">>

\* f"expense_report_{year}_{month}.json"
report_filename(year, month) ==
    <<"expense_report_">> \o IntText(year) \o <<"_">> \o IntText(month) \o <<".json">>

RECURSIVE by_category(_)
by_category(exps) ==
    IF exps = <<>> THEN <<>>
    ELSE dict_add(by_category(SubSeq(exps, 1, Len(exps) - 1)),
                  exps[Len(exps)].category, exps[Len(exps)].amount)

\* the report dictionary monthly_report builds from the month's expenses
build_report(month_expenses, month, year) ==
    [month |-> month_name[month],
     year |-> year,
     total |-> SumAmounts(month_expenses),
     by_category |-> by_category(month_expenses),
     expenses |-> [i \in 1..Len(month_expenses) |->
                     [date |-> strftime_day(month_expenses[i].date),
                      description |-> month_expenses[i].description,
                      category |-> month_expenses[i].category,
                      amount |-> month_expenses[i].amount]]]

\* ------------------------------------------------------------------ state
\* the return value None; a returned value v is <<v>>
Nothing == <<>>

\* what the last operation was called with, printed and returned
Result(call, printed, returned) ==
    [call |-> call, printed |-> printed, returned |-> returned]

InitAt(instants) ==
    /\ expenses = <<>>
    /\ category_budgets = EmptyDict
    /\ data_file = NoFile
    /\ budget_file = NoFile
    /\ reports = EmptyDict
    /\ now \in instants
    /\ out = Result(<<"__init__">>, <<>>, Nothing)

\* the category stored as given
coerce_category_mut(category) == category

\* if category not in self.categories: category = "Other"
coerce_category(category) ==
    IF category \in CategorySet THEN category ELSE "Other"

\* add_expense(description, category, amount).  `at` is what datetime.now()
\* returns; both calls of the handler (lines 69 and 256) read the same
\* instant.  `bound` caps the length of the list in the explored runs.
add_expense(description, category, amount, at, bound) ==
    LET cat == coerce_category(category)
        parsed == float(amount)
        expense == [date |-> at, description |-> description,
                    category |-> cat, amount |-> parsed.val]
        call == <<"add_expense", description, category, amount>>
    IN  IF ~parsed.ok
        THEN /\ out' = Result(call,
                         << [msg |-> "Invalid amount. Please enter a number."] >>,
                         Nothing)
             /\ UNCHANGED <<expenses, category_budgets, data_file,
                            budget_file, reports, now>>
        ELSE /\ Len(expenses) < bound
             /\ expenses' = Append(expenses, expense)
             /\ data_file' = <<save_data(expenses')>>
             /\ now' = at
             /\ out' = Result(call,
                         << [msg |-> "Added expense", amount |-> parsed.val,
                             description |-> description] >>
                         \o check_budget_alert(expenses', category_budgets, cat, at),
                         Nothing)
             /\ UNCHANGED <<category_budgets, budget_file, reports>>

\* set_budgets(): answers[category] is the text typed at the prompt
set_budgets(answers) ==
    LET parsed == [c \in CategorySet |-> float(answers[c])]
        invalid == {c \in CategorySet : answers[c] # <<>> /\ ~parsed[c].ok}
        keys == DOMAIN category_budgets \cup (CategorySet \ invalid)
    IN  /\ category_budgets' =
              [c \in keys |->
                  IF c \in invalid THEN category_budgets[c]
                  ELSE IF answers[c] = <<>> THEN 0 ELSE parsed[c].val]
        /\ budget_file' = <<category_budgets'>>
        /\ out' = Result(<<"set_budgets", answers>>,
                         [i \in 1..Cardinality(invalid) |->
                            [msg |-> "Invalid input. Budget not changed."]]
                         \o << [msg |-> "Budgets updated successfully!"] >>,
                         Nothing)
        /\ UNCHANGED <<expenses, data_file, reports, now>>

clear_all_expenses ==
    /\ expenses' = <<>>
    /\ data_file' = <<save_data(expenses')>>
    /\ out' = Result(<<"clear_all_expenses">>,
                     << [msg |-> "All expenses have been cleared."] >>, Nothing)
    /\ UNCHANGED <<category_budgets, budget_file, reports, now>>

clear_all_budgets ==
    /\ category_budgets' = EmptyDict
    /\ budget_file' = <<category_budgets'>>
    /\ out' = Result(<<"clear_all_budgets">>,
                     << [msg |-> "All budgets have been cleared."] >>, Nothing)
    /\ UNCHANGED <<expenses, data_file, reports, now>>

\* __init__ of the next run of the program over the same files
init ==
    /\ expenses' = load_data(data_file)
    /\ category_budgets' = load_budgets(budget_file)
    /\ out' = Result(<<"__init__">>, <<>>, Nothing)
    /\ UNCHANGED <<data_file, budget_file, reports, now>>

\* get_summary(month, year) called on the tracker
summary(month, year) ==
    /\ out' = Result(<<"get_summary", month, year>>, <<>>,
                     <<get_summary(expenses, month, year)>>)
    /\ UNCHANGED <<expenses, category_budgets, data_file, budget_file, reports, now>>

show_summary(month, year) ==
    LET s == get_summary(expenses, month, year)
    IN  /\ out' = Result(<<"show_summary", month, year>>,
                     IF expenses = <<>>
                     THEN << [msg |-> "No expenses to summarize."] >>
                     ELSE [i \in 1..Len(s.summary) |->
                             summary_line(category_budgets, s.summary[i].category,
                                          s.summary[i].amount)]
                          \o << [msg |-> "Total Expenses", total |-> s.total] >>,
                     Nothing)
        /\ UNCHANGED <<expenses, category_budgets, data_file, budget_file, reports, now>>

\* spending_trends(): `returned` is the series handed to plt.bar
spending_trends ==
    /\ out' = IF expenses = <<>>
              THEN Result(<<"spending_trends">>,
                          << [msg |-> "No expenses to analyze trends."] >>, Nothing)
              ELSE Result(<<"spending_trends">>,
                          << [msg |-> "Saved spending trends to 'spending_trends.png'"] >>,
                          <<monthly(expenses)>>)
    /\ UNCHANGED <<expenses, category_budgets, data_file, budget_file, reports, now>>

\* the month's expenses of any year
month_expenses_mut(exps, month, year) ==
    SelectSeq(exps, LAMBDA e : e.date.month = month)

\* the expenses monthly_report selects
month_expenses(exps, month, year) ==
    SelectSeq(exps, LAMBDA e : e.date.month = month /\ e.date.year = year)

\* monthly_report(month, year); `at` is what datetime.now() returns when the
\* handler reads it (line 273)
monthly_report(month, year, at) ==
    LET m == IF Truthy(month) THEN month ELSE at.month
        y == IF Truthy(year) THEN year ELSE at.year
        found == month_expenses(expenses, m, y)
        report == build_report(found, m, y)
        filename == report_filename(y, m)
        call == <<"monthly_report", month, year>>
    IN  /\ IF found = <<>>
           THEN /\ out' = Result(call,
                            << [msg |-> "No expenses for", month |-> month_name[m],
                                year |-> y] >>,
                            Nothing)
                /\ UNCHANGED reports
           ELSE /\ reports' = [f \in DOMAIN reports \cup {filename} |->
                                 IF f = filename THEN report ELSE reports[f]]
                /\ out' = Result(call,
                            << [msg |-> "Monthly report saved to",
                                filename |-> filename] >>,
                            <<report>>)
        /\ now' = IF Truthy(month) /\ Truthy(year) THEN now ELSE at
        /\ UNCHANGED <<expenses, category_budgets, data_file, budget_file>>

\* ------------------------------------------------------------------ inputs
Descriptions == {"Coffee"}

\* "Groceries" is not in self.categories
CategoryInputs == {"Food", "Other", "Groceries"}

\* amounts typed at the prompt
ValidAmounts == { <<"4", ".", "5", "0">>, <<"4">> }

StoreAmounts ==
    { <<"4", ".", "5", "0">>, <<"-", "2", ".", "5">>, <<"a", "b", "c">>, <<>> }

\* month and year arguments: None, or a month (year) with or without expenses
MonthInputs == {None, 1, 2}

YearInputs == {None, 2024, 2025}

\* the texts typed at the prompts of set_budgets: one for Food, one for the rest
Answers(foodTexts, restTexts) ==
    { [c \in CategorySet |-> IF c = "Food" THEN f ELSE r] :
        f \in foodTexts, r \in restTexts }

StoreAnswers == Answers({<<"4", ".", "0", "0">>, <<"x">>}, {<<>>})

BudgetAnswers ==
    Answers({<<>>, <<"4", ".", "0", "0">>, <<"-", "1">>, <<"x">>}, {<<>>})

\* ------------------------------------------------------------------ store
Init == InitAt(TwoInstants)

Next ==
    \/ \E d \in Descriptions, c \in CategoryInputs, a \in StoreAmounts,
          t \in TwoInstants :
          add_expense(d, c, a, t, MaxExpenses)
    \/ \E answers \in StoreAnswers : set_budgets(answers)
    \/ clear_all_expenses
    \/ clear_all_budgets
    \/ init

Spec == Init /\ [][Next]_vars

\* ------------------------------------------------------------------ budgets
InitBudget == InitAt(Instants)

NextBudget ==
    \/ \E d \in Descriptions, c \in {"Food", "Other"}, a \in ValidAmounts,
          t \in Instants :
          add_expense(d, c, a, t, MaxBudgetExpenses)
    \/ \E answers \in BudgetAnswers : set_budgets(answers)
    \/ \E m \in {None, 1}, y \in {None, 2024} : show_summary(m, y)

SpecBudget == InitBudget /\ [][NextBudget]_vars

\* ------------------------------------------------------------------ aggregation
InitQuery == InitAt(Instants)

NextQuery ==
    \/ \E d \in Descriptions, c \in {"Food", "Other"}, a \in ValidAmounts,
          t \in Instants :
          add_expense(d, c, a, t, MaxQueryExpenses)
    \/ \E m \in MonthInputs, y \in {None, 2024} : summary(m, y)
    \/ spending_trends

SpecQuery == InitQuery /\ [][NextQuery]_vars

\* ------------------------------------------------------------------ reports
InitReport == InitAt(TwoInstants)

NextReport ==
    \/ \E d \in Descriptions, c \in {"Food", "Other"}, t \in TwoInstants :
          add_expense(d, c, <<"4", ".", "5", "0">>, t, MaxReportExpenses)
    \/ \E m \in MonthInputs, y \in YearInputs, t \in TwoInstants :
          monthly_report(m, y, t)

SpecReport == InitReport /\ [][NextReport]_vars

\* ------------------------------------------------------------------ properties
\* the operation `out` records
Op == out.call[1]

\* `out` records an add_expense that stored its expense
Added == Op = "add_expense" /\ out.printed[1].msg = "Added expense"

\* the BUDGET ALERT block was printed
Alerted == \E i \in 1..Len(out.printed) : out.printed[i].msg = "BUDGET ALERT"

LastExpense == expenses[Len(expenses)]

RECURSIVE SumValues(_)
SumValues(d) ==
    IF d = <<>> THEN 0 ELSE SumValues(Tail(d)) + d[1].amount

\* the expenses a month and a year filter select; None selects everything
Matching(m, y) ==
    SelectSeq(expenses, LAMBDA e : /\ (m = None \/ e.date.month = m)
                                   /\ (y = None \/ e.date.year = y))

\* C1: get_summary's total is the sum of the amounts of exactly the expenses
\* whose month equals the month filter (when given) and whose year equals the
\* year filter (when given); the values of its per-category mapping add up to
\* that total; with no matching expense the mapping is empty and the total 0.
C1_SummaryTotals ==
    Op = "get_summary" =>
        LET matching == Matching(out.call[2], out.call[3])
            r == out.returned[1]
        IN  /\ r.total = SumAmounts(matching)
            /\ SumValues(r.summary) = r.total
            /\ matching = <<>> => r.summary = <<>> /\ r.total = 0

\* a summary with both filters given that selects some expenses of two
\* categories and leaves others out
C1_Witness ==
    /\ Op = "get_summary"
    /\ out.call[2] # None /\ out.call[3] # None
    /\ Len(out.returned[1].summary) = 2
    /\ Len(Matching(out.call[2], out.call[3])) < Len(expenses)
    /\ \E i \in 1..Len(expenses) :
          expenses[i].date.month = out.call[2] /\ expenses[i].date.year # out.call[3]

\* the current calendar month's total of a category, from the full history
MonthTotal(exps, category) ==
    SumAmounts(SelectSeq(exps, LAMBDA e : /\ e.category = category
                                          /\ e.date.month = now.month
                                          /\ e.date.year = now.year))

\* a budget is configured for the category: an entry that is not zero (a
\* negative entry, which set_budgets accepts, counts as none as well)
Configured(category) ==
    category \in DOMAIN category_budgets /\ category_budgets[category] > 0

\* C2: after every successful add_expense the alert is printed if and only if
\* the current month's total of the added expense's category, recomputed from
\* all stored expenses, strictly exceeds the budget configured for it.
C2_AlertIffOverBudget ==
    Added =>
        (Alerted <=>
            /\ Configured(LastExpense.category)
            /\ MonthTotal(expenses, LastExpense.category)
                  > category_budgets[LastExpense.category])

\* an addition to a category that was over budget this month already, and
\* that alerts again
C2_Witness ==
    /\ Added /\ Alerted
    /\ Len(expenses) >= 2
    /\ MonthTotal(SubSeq(expenses, 1, Len(expenses) - 1), LastExpense.category)
          > category_budgets[LastExpense.category]

\* the category lines show_summary printed (the last line is the total)
SummaryLines == SubSeq(out.printed, 1, Len(out.printed) - 1)

\* C3: a category whose budget entry is absent or zero is shown with no
\* budget status whatever was spent; it is shown over budget only when the
\* amount is strictly greater than a positive budget; with a positive budget
\* and an amount up to it, it is shown under budget with budget - amount
\* remaining, which is 0 when the amount equals the budget.
C3_BudgetStatus ==
    (Op = "show_summary" /\ expenses # <<>>) =>
        \A i \in 1..Len(SummaryLines) :
            LET line == SummaryLines[i]
                c == line.category
                absent == c \notin DOMAIN category_budgets
            IN  /\ (absent \/ category_budgets[c] = 0) =>
                      line.status = "" /\ line.remaining = 0
                /\ line.status = "OVER BUDGET!" =>
                      ~absent /\ category_budgets[c] > 0
                              /\ line.amount > category_budgets[c]
                /\ (~absent /\ category_budgets[c] > 0
                            /\ line.amount <= category_budgets[c]) =>
                      /\ line.status = "remaining"
                      /\ line.remaining = category_budgets[c] - line.amount

\* a category whose amount equals its budget, shown with 0 remaining, next
\* to one without budget
C3_Witness ==
    /\ Op = "show_summary" /\ expenses # <<>>
    /\ \E i, j \in 1..Len(SummaryLines) :
          /\ SummaryLines[i].category \in DOMAIN category_budgets
          /\ category_budgets[SummaryLines[i].category] = SummaryLines[i].amount
          /\ SummaryLines[i].status = "remaining"
          /\ SummaryLines[i].remaining = 0
          /\ SummaryLines[j].status = "" /\ SummaryLines[j].amount > 0

\* C4: every stored expense has a non-negative amount.
C4_NonNegativeAmounts ==
    \A i \in 1..Len(expenses) : expenses[i].amount >= 0

\* the fixed set of categories
FixedCategories ==
    {"Food", "Transportation", "Housing", "Entertainment", "Utilities",
     "Healthcare", "Education", "Shopping", "Other"}

\* C5: every stored expense's category is in the fixed set; an expense added
\* with a category outside the set is stored as Other, one added with a
\* category of the set is stored with that category.
C5_CategoryCoerced ==
    /\ \A i \in 1..Len(expenses) : expenses[i].category \in FixedCategories
    /\ Added =>
          LastExpense.category =
              IF out.call[3] \in FixedCategories THEN out.call[3] ELSE "Other"

\* an expense added as Groceries and stored as Other, after one stored as Food
C5_Witness ==
    /\ Added /\ out.call[3] = "Groceries" /\ LastExpense.category = "Other"
    /\ \E i \in 1..Len(expenses) : expenses[i].category = "Food"

\* the rows of data_file
Rows == IF data_file = NoFile THEN <<>> ELSE data_file[1]

\* the row lists the expense: its description and category, its amount as a
\* decimal text, its date as YYYY-MM-DD HH:MM
Lists(row, e) ==
    /\ row.description = e.description
    /\ row.category = e.category
    /\ float(row.amount) = [ok |-> TRUE, val |-> e.amount]
    /\ Len(row.date) = 16
    /\ strptime_minute(row.date) = [e.date EXCEPT !.second = 0]

\* C6: the transaction file lists exactly the in-memory expenses, in order,
\* and the budget file holds exactly the in-memory budgets; once a mutating
\* operation has completed its file exists.
C6_WriteThrough ==
    /\ Len(Rows) = Len(expenses)
    /\ \A i \in 1..Len(expenses) : Lists(Rows[i], expenses[i])
    /\ load_budgets(budget_file) = category_budgets
    /\ (Added \/ Op = "clear_all_expenses") => data_file # NoFile
    /\ Op \in {"set_budgets", "clear_all_budgets"} => budget_file # NoFile

\* expenses cleared after some were written, with budgets set
C6_Witness ==
    /\ Op = "clear_all_expenses"
    /\ data_file = << <<>> >>
    /\ budget_file # NoFile /\ "Food" \in DOMAIN category_budgets
    /\ category_budgets["Food"] > 0

\* C7: writing the in-memory expenses to the transaction file and loading
\* them reproduces the in-memory records.
C7_RoundTrip ==
    load_data(<<save_data(expenses)>>) = expenses

\* the month and the year a monthly_report call is for: its arguments, or
\* the current month and year where an argument is None
ReportMonth(call, clock) == IF call[2] = None THEN clock.month ELSE call[2]

ReportYear(call, clock) == IF call[3] = None THEN clock.year ELSE call[3]

\* C8: monthly_report for a month and year no stored expense has writes no
\* report, returns none and leaves the reports, the expenses and the budgets
\* as they were; with a matching expense it writes exactly the report of that
\* year and month, named after them alone, and leaves every other report and
\* the expenses and budgets as they were.
C8_ReportArtifact ==
    [][ out'.call[1] = "monthly_report" =>
            LET m == ReportMonth(out'.call, now')
                y == ReportYear(out'.call, now')
                matching == Matching(m, y)
                written == {f \in DOMAIN reports' :
                               f \notin DOMAIN reports \/ reports'[f] # reports[f]}
            IN  /\ UNCHANGED <<expenses, category_budgets, data_file, budget_file>>
                /\ matching = <<>> =>
                      /\ reports' = reports
                      /\ out'.returned = Nothing
                /\ matching # <<>> =>
                      /\ out'.returned # Nothing
                      /\ DOMAIN reports' = DOMAIN reports \cup {report_filename(y, m)}
                      /\ written \subseteq {report_filename(y, m)}
                      /\ reports'[report_filename(y, m)] = out'.returned[1]
                      /\ out'.returned[1].year = y
                      /\ out'.returned[1].month = month_name[m]
                      /\ out'.returned[1].total = SumAmounts(matching)
                      /\ Len(out'.returned[1].expenses) = Len(matching)
                      /\ \A y2 \in YearInputs \ {None}, m2 \in 1..12 :
                            report_filename(y2, m2) = report_filename(y, m)
                                => y2 = y /\ m2 = m
      ]_vars

\* a call for a month without expenses, made when the report of another
\* month exists: nothing returned, that report still there
C8_Witness ==
    /\ Op = "monthly_report"
    /\ out.call[2] # None /\ out.call[3] # None
    /\ Matching(out.call[2], out.call[3]) = <<>>
    /\ out.returned = Nothing
    /\ expenses # <<>>
    /\ \E f \in DOMAIN reports : reports[f].total = SumAmounts(expenses)

\* the months that have an expense, as <<year, month>>
MonthsWithExpenses ==
    {<<expenses[i].date.year, expenses[i].date.month>> : i \in 1..Len(expenses)}

\* the <<year, month>> a label YYYY-MM names
LabelMonth(label) == <<IntVal(SubSeq(label, 1, 4)), IntVal(SubSeq(label, 6, 7))>>

Earlier(a, b) == a[1] < b[1] \/ (a[1] = b[1] /\ a[2] < b[2])

\* C9: for a non-empty expense list spending_trends produces one point for
\* each month that has an expense and none for any other, each with the sum
\* of all amounts of its month, in chronological order.
C9_TrendPerMonth ==
    (Op = "spending_trends" /\ expenses # <<>>) =>
        LET points == out.returned[1]
        IN  /\ Len(points) = Cardinality(MonthsWithExpenses)
            /\ \A i \in 1..Len(points) :
                  /\ Len(points[i].month_year) = 7
                  /\ points[i].month_year[5] = "-"
                  /\ LabelMonth(points[i].month_year) \in MonthsWithExpenses
                  /\ points[i].amount =
                        SumAmounts(SelectSeq(expenses, LAMBDA e :
                            <<e.date.year, e.date.month>>
                                = LabelMonth(points[i].month_year)))
            /\ \A i, j \in 1..Len(points) :
                  i < j => Earlier(LabelMonth(points[i].month_year),
                                   LabelMonth(points[j].month_year))

\* expenses entered out of chronological order, two categories in January,
\* one expense in February: two points, January first
C9_Witness ==
    /\ Op = "spending_trends"
    /\ Len(expenses) = 3
    /\ expenses[1].date.month = 2
    /\ expenses[2].date.month = 1 /\ expenses[3].date.month = 1
    /\ expenses[2].date.year = 2024 /\ expenses[3].date.year = 2024
    /\ expenses[2].category # expenses[3].category
    /\ expenses[2].amount # expenses[3].amount
    /\ Len(out.returned[1]) = 2
    /\ out.returned[1][1].amount = expenses[2].amount + expenses[3].amount

\* the text has no digit, so it is no number
NonNumeric(text) == \A i \in 1..Len(text) : text[i] \notin Digits

====
